---- MODULE Spec2Model ----
(***************************************************************************)
(* Session-credential lifecycle of the auth service: the four flows of     *)
(* AuthController (register, login, refresh, logout) running as            *)
(* request-scoped units of work over the Identity Provider (UserService,   *)
(* CredentialService) and the Refresh Token Store (TokenService).          *)
(*                                                                         *)
(* Every `await` of a handler is a step boundary: the code between two     *)
(* awaits runs in one action.  A request may also stop for good at any     *)
(* await (process crash).                                                  *)
(***************************************************************************)
EXTENDS Integers, Sequences, FiniteSets, TLC

\* ------------------------------------------------------------------ bounds
NumReq    == 2    \* request slots that may be in flight at the same time
MaxTokens == 3    \* refresh-token records ever created
MaxUsers  == 2    \* identities ever created
MaxCalls  == 3    \* calls ever made: requests and identity changes

Procs     == 1..NumReq
Emails    == {"a@b.com", "c@d.com"}
Passwords == {"p1", "p2"}

VARIABLES
    users,          \* Identity Provider: the identities that exist
    nextUserId,     \* next identity id the Identity Provider assigns
    refreshTokens,  \* Refresh Token Store: the live records
    nextTokenId,    \* next record id the store assigns (ids are never reused)
    session,        \* history: record id -> id of the first record of its session
    delivered,      \* refresh tokens handed to clients so far
    calls,          \* calls made so far
    req             \* per request slot: the handler's position, locals and response

vars == <<users, nextUserId, refreshTokens, nextTokenId, session, delivered, calls, req>>

\* ------------------------------------------------------------ plain values
Null == [null |-> TRUE]

\* String(n) of a non-negative integer: its decimal digits
RECURSIVE StringOf(_)
StringOf(n) == IF n < 10 THEN <<n>> ELSE Append(StringOf(n \div 10), n % 10)

\* Number(s) of a digit string; Number("") is 0
RECURSIVE NumberOf(_)
NumberOf(s) ==
    IF Len(s) = 0 THEN 0
    ELSE 10 * NumberOf(SubSeq(s, 1, Len(s) - 1)) + s[Len(s)]

EmptyString == << >>

\* ------------------------------------------------------- Identity Provider
RoleCustomer == "customer"
RoleManager  == "manager"

HashOf(password) == <<"hash", password>>

ComparePassword(plain, hash) == HashOf(plain) = hash

DuplicateEmail == [kind |-> "DuplicateEmail", status |-> 400,
                   message |-> "Email is already exists!"]

FindByEmailWithPassword(email) ==
    IF \E u \in users : u.email = email
    THEN CHOOSE u \in users : u.email = email
    ELSE Null

FindById(id) ==
    IF \E u \in users : u.id = id
    THEN CHOOSE u \in users : u.id = id
    ELSE Null

NewUser(body, role) ==
    [id |-> nextUserId, email |-> body.email, password |-> HashOf(body.password),
     role |-> role, tenant |-> 0,
     firstName |-> body.firstName, lastName |-> body.lastName]

\* ------------------------------------------------------ Refresh Token Store
StoreUnavailable == [kind |-> "StoreUnavailable", status |-> 500,
                     message |-> "Failed to store the data in the database"]

NewRefreshTokenRecord(user) == [id |-> nextTokenId, user |-> user.id]

PersistRefreshToken(tokens, user) == tokens \cup {NewRefreshTokenRecord(user)}

DeleteRefreshToken(tokens, tokenId) == {t \in tokens : t.id # tokenId}

LiveIds == {t.id : t \in refreshTokens}

\* ------------------------------------------------------------ Token Issuer
GenerateAccessToken(payload) == [class |-> "access", claims |-> payload]

GenerateRefreshToken(payload) == [class |-> "refresh", claims |-> payload]

\* ------------------------------------------------------------ the response
NoResponse ==
    [status |-> 200, json |-> Null, err |-> Null,
     accessToken |-> Null, refreshToken |-> Null, cleared |-> {}]

IdleReq ==
    [kind |-> "none", pc |-> "idle", body |-> Null, auth |-> Null,
     user |-> Null, accessToken |-> Null, newRefreshToken |-> Null,
     res |-> NoResponse,
     created |-> {}, revoked |-> {}, fault |-> "none", stale |-> FALSE]

\* ------------------------------------------------- AuthController helpers
\* variant: sub taken from the tenant instead of the identity
UserPayloadTenantSub(user) ==
    [sub |-> IF user.tenant # 0 THEN StringOf(user.tenant) ELSE EmptyString,
     role |-> user.role,
     tenant |-> IF user.tenant # 0 THEN StringOf(user.tenant) ELSE EmptyString,
     firstName |-> user.firstName,
     lastName |-> user.lastName,
     email |-> user.email]

\* the claims built from an identity (register and login)
UserPayload(user) ==
    [sub |-> StringOf(user.id),
     role |-> user.role,
     tenant |-> IF user.tenant # 0 THEN StringOf(user.tenant) ELSE EmptyString,
     firstName |-> user.firstName,
     lastName |-> user.lastName,
     email |-> user.email]

\* the claims copied from the presented refresh token (refresh)
RefreshPayload(auth) ==
    [sub |-> auth.sub, role |-> auth.role, tenant |-> auth.tenant,
     firstName |-> auth.firstName, lastName |-> auth.lastName,
     email |-> auth.email]

\* { ...payload, id: String(newRefreshToken.id) }
WithId(payload, record) ==
    [sub |-> payload.sub, role |-> payload.role, tenant |-> payload.tenant,
     firstName |-> payload.firstName, lastName |-> payload.lastName,
     email |-> payload.email, id |-> StringOf(record.id)]

\* variant: the access-token cookie is set as soon as the token is generated
WithAccessTokenCookie(r, payload) ==
    [r EXCEPT !.accessToken = GenerateAccessToken(payload),
              !.res.accessToken = GenerateAccessToken(payload)]

\* const accessToken = this.tokenService.generateAccessToken(payload)
WithAccessToken(r, payload) ==
    [r EXCEPT !.accessToken = GenerateAccessToken(payload)]

\* the two res.cookie calls
SetCookies(r, accessToken, refreshToken) ==
    [r EXCEPT !.res.accessToken = accessToken, !.res.refreshToken = refreshToken]

CreateHttpError(status, message) ==
    [kind |-> "HttpError", status |-> status, message |-> message]

\* variant: the handler forwards a generic error of its own
CatchWrapped(r, err, fault) ==
    [r EXCEPT !.pc = "done", !.fault = fault,
              !.res.err = CreateHttpError(500, "Internal server error")]

\* variant: the handler forwards the error and also answers
CatchAlsoResponds(r, err, fault) ==
    [r EXCEPT !.pc = "done", !.res.err = err, !.fault = fault,
              !.res.json = [empty |-> TRUE]]

\* catch (err) { next(err); return; }
Catch(r, err, fault) ==
    [r EXCEPT !.pc = "done", !.res.err = err, !.fault = fault]

\* return res.status(400).json({ errors: result.array() })
ValidationFailed(r) ==
    [r EXCEPT !.pc = "done", !.res.status = 400,
              !.res.json = [errors |-> TRUE], !.fault = "validation"]

\* variant: a missing identity is reported as such
LoginNoUserErrorNotFound == CreateHttpError(404, "User not found")

\* login, no identity for the email
LoginNoUserError == CreateHttpError(400, "Email or password does not match.")

\* login, the password does not match
LoginWrongPasswordError == CreateHttpError(400, "Email or password does not match.")

\* refresh, no identity for the token's sub
RefreshNoUserError == CreateHttpError(400, "User with the token could not find")

\* refresh tokens a response hands to its client
DeliveredBy(r) ==
    IF r.pc = "done" /\ r.res.refreshToken # Null
    THEN {r.res.refreshToken.claims}
    ELSE {}

Update(p, r) ==
    /\ req' = [req EXCEPT ![p] = r]
    /\ delivered' = delivered \cup DeliveredBy(r)

Over(p) == req[p].pc \in {"idle", "done", "crashed"}

\* a new request takes the lowest slot whose last request is over
Free(p) == Over(p) /\ calls < MaxCalls /\ \A q \in 1..(p - 1) : ~Over(q)

\* request bodies: the well-formed ones and a malformed one
Malformed == [email |-> "", password |-> "", firstName |-> "", lastName |-> ""]

RegisterBodies ==
    [email : Emails, password : {"p1"}, firstName : {"Ann"}, lastName : {"Lee"}]
        \cup {Malformed}

LoginBodies ==
    [email : Emails, password : Passwords, firstName : {""}, lastName : {""}]
        \cup {Malformed}

\* variant: the validation result is not consulted
IsValidAlways(body) == TRUE

\* validationResult(req).isEmpty()
IsValid(body) == body.email # "" /\ body.password # ""

\* ------------------------------------------------------------------ register
RegisterStart(p, body) ==
    /\ Free(p)
    /\ calls' = calls + 1
    /\ LET r == [IdleReq EXCEPT !.kind = "register", !.body = body]
       IN  Update(p, IF IsValid(body) THEN [r EXCEPT !.pc = "create"] ELSE ValidationFailed(r))
    /\ UNCHANGED <<users, nextUserId, refreshTokens, nextTokenId, session>>

\* await this.userService.create(...), then up to the next await
RegisterCreate(p) ==
    LET r == req[p] IN
    /\ r.kind = "register" /\ r.pc = "create"
    /\ IF \E u \in users : u.email = r.body.email
       THEN /\ Update(p, Catch(r, DuplicateEmail, "create"))
            /\ UNCHANGED <<users, nextUserId>>
       ELSE /\ nextUserId <= MaxUsers
            /\ LET user == NewUser(r.body, RoleCustomer)
               IN  /\ users' = users \cup {user}
                   /\ nextUserId' = nextUserId + 1
                   /\ Update(p, WithAccessToken(
                                   [r EXCEPT !.user = user, !.pc = "persist"],
                                   UserPayload(user)))
    /\ UNCHANGED <<refreshTokens, nextTokenId, session, calls>>

\* the success response of register and login, after the record is persisted
IssueResponse(r, status) ==
    LET refreshToken ==
            GenerateRefreshToken(WithId(UserPayload(r.user), r.newRefreshToken))
        c == SetCookies(r, r.accessToken, refreshToken)
    IN  [c EXCEPT !.pc = "done", !.res.status = status,
                  !.res.json = [id |-> r.user.id]]

\* await this.tokenService.persistRefreshToken(user) resolves
PersistOk(p, kind, status) ==
    LET r == req[p]
        record == NewRefreshTokenRecord(r.user)
    IN
    /\ r.kind = kind /\ r.pc = "persist"
    /\ nextTokenId <= MaxTokens
    /\ refreshTokens' = PersistRefreshToken(refreshTokens, r.user)
    /\ nextTokenId' = nextTokenId + 1
    /\ session' = (record.id :> record.id) @@ session
    /\ Update(p, IssueResponse(
                    [r EXCEPT !.newRefreshToken = record, !.created = {record}],
                    status))
    /\ UNCHANGED <<users, nextUserId, calls>>

\* await this.tokenService.persistRefreshToken(user) rejects
PersistFail(p, kind) ==
    LET r == req[p] IN
    /\ r.kind = kind /\ r.pc = "persist"
    /\ Update(p, Catch(r, StoreUnavailable, "persist"))
    /\ UNCHANGED <<users, nextUserId, refreshTokens, nextTokenId, session, calls>>

RegisterPersistOk(p) == PersistOk(p, "register", 201)

RegisterPersistFail(p) == PersistFail(p, "register")

\* --------------------------------------------------------------------- login
LoginStart(p, body) ==
    /\ Free(p)
    /\ calls' = calls + 1
    /\ LET r == [IdleReq EXCEPT !.kind = "login", !.body = body]
       IN  Update(p, IF IsValid(body) THEN [r EXCEPT !.pc = "find"] ELSE ValidationFailed(r))
    /\ UNCHANGED <<users, nextUserId, refreshTokens, nextTokenId, session>>

\* await this.userService.findByEmailWithPassword(email)
LoginFind(p) ==
    LET r == req[p]
        user == FindByEmailWithPassword(r.body.email)
    IN
    /\ r.kind = "login" /\ r.pc = "find"
    /\ Update(p, IF user = Null
                 THEN Catch(r, LoginNoUserError, "nouser")
                 ELSE [r EXCEPT !.user = user, !.pc = "compare"])
    /\ UNCHANGED <<users, nextUserId, refreshTokens, nextTokenId, session, calls>>

\* await this.credentialService.comparePassword(password, user.password)
LoginCompare(p) ==
    LET r == req[p] IN
    /\ r.kind = "login" /\ r.pc = "compare"
    /\ Update(p, IF ~ComparePassword(r.body.password, r.user.password)
                 THEN Catch(r, LoginWrongPasswordError, "badpassword")
                 ELSE WithAccessToken([r EXCEPT !.pc = "persist"],
                                      UserPayload(r.user)))
    /\ UNCHANGED <<users, nextUserId, refreshTokens, nextTokenId, session, calls>>

LoginPersistOk(p) == PersistOk(p, "login", 200)

LoginPersistFail(p) == PersistFail(p, "login")

\* ------------------------------------------------------------------- refresh
\* variant: delete the old record, then create the new one
RefreshOrderSwapped == <<"delete", "persist">>

\* the order of the two store calls of refresh
RefreshOrder == <<"persist", "delete">>

\* variant: the id of the record just created is passed to the delete
RefreshOldTokenIdNew(r) == r.newRefreshToken.id

\* Number(req.auth.id): the record refresh revokes
RefreshOldTokenId(r) == NumberOf(r.auth.id)

\* variant: the presented token's claims, id included, are signed again
RefreshRespondOldId(r) ==
    LET refreshToken == GenerateRefreshToken(r.auth)
        c == SetCookies(r, r.accessToken, refreshToken)
    IN  [c EXCEPT !.pc = "done", !.res.json = [id |-> r.user.id]]

\* generateRefreshToken, the two cookies and res.json({ id: user.id })
RefreshRespond(r) ==
    LET refreshToken ==
            GenerateRefreshToken(WithId(RefreshPayload(r.auth), r.newRefreshToken))
        c == SetCookies(r, r.accessToken, refreshToken)
    IN  [c EXCEPT !.pc = "done", !.res.json = [id |-> r.user.id]]

\* where refresh goes once the store call `step` has resolved
RefreshAfter(r, step) ==
    IF step = RefreshOrder[1]
    THEN [r EXCEPT !.pc = RefreshOrder[2]]
    ELSE RefreshRespond(r)

\* the handler up to its first await
RefreshStart(p, auth) ==
    /\ Free(p)
    /\ calls' = calls + 1
    /\ LET r == [IdleReq EXCEPT !.kind = "refresh", !.auth = auth, !.pc = "find",
                                !.stale = NumberOf(auth.id) \notin LiveIds]
       IN  Update(p, WithAccessToken(r, RefreshPayload(auth)))
    /\ UNCHANGED <<users, nextUserId, refreshTokens, nextTokenId, session>>

\* await this.userService.findById(Number(req.auth.sub))
RefreshFind(p) ==
    LET r == req[p]
        user == FindById(NumberOf(r.auth.sub))
    IN
    /\ r.kind = "refresh" /\ r.pc = "find"
    /\ Update(p, IF user = Null
                 THEN Catch(r, RefreshNoUserError, "nouser")
                 ELSE [r EXCEPT !.user = user, !.pc = RefreshOrder[1]])
    /\ UNCHANGED <<users, nextUserId, refreshTokens, nextTokenId, session, calls>>

\* await this.tokenService.persistRefreshToken(user) resolves
RefreshPersistOk(p) ==
    LET r == req[p]
        record == NewRefreshTokenRecord(r.user)
        old == NumberOf(r.auth.id)
    IN
    /\ r.kind = "refresh" /\ r.pc = "persist"
    /\ nextTokenId <= MaxTokens
    /\ refreshTokens' = PersistRefreshToken(refreshTokens, r.user)
    /\ nextTokenId' = nextTokenId + 1
    /\ session' = (record.id :> session[old]) @@ session
    /\ Update(p, RefreshAfter(
                    [r EXCEPT !.newRefreshToken = record, !.created = {record}],
                    "persist"))
    /\ UNCHANGED <<users, nextUserId, calls>>

RefreshPersistFail(p) ==
    LET r == req[p] IN
    /\ r.kind = "refresh" /\ r.pc = "persist"
    /\ Update(p, Catch(r, StoreUnavailable, "persist"))
    /\ UNCHANGED <<users, nextUserId, refreshTokens, nextTokenId, session, calls>>

\* await this.tokenService.deleteRefreshToken(Number(req.auth.id)) resolves
RefreshDeleteOk(p) ==
    LET r == req[p]
        old == RefreshOldTokenId(r)
    IN
    /\ r.kind = "refresh" /\ r.pc = "delete"
    /\ refreshTokens' = DeleteRefreshToken(refreshTokens, old)
    /\ Update(p, RefreshAfter([r EXCEPT !.revoked = {old}], "delete"))
    /\ UNCHANGED <<users, nextUserId, nextTokenId, session, calls>>

RefreshDeleteFail(p) ==
    LET r == req[p] IN
    /\ r.kind = "refresh" /\ r.pc = "delete"
    /\ Update(p, Catch(r, StoreUnavailable, "delete"))
    /\ UNCHANGED <<users, nextUserId, refreshTokens, nextTokenId, session, calls>>

\* -------------------------------------------------------------------- logout
\* variant: the identity id is passed to the delete
LogoutTokenIdSub(r) == NumberOf(r.auth.sub)

\* Number(req.auth.id): the record logout revokes
LogoutTokenId(r) == NumberOf(r.auth.id)

LogoutStart(p, auth) ==
    /\ Free(p)
    /\ calls' = calls + 1
    /\ Update(p, [IdleReq EXCEPT !.kind = "logout", !.auth = auth, !.pc = "delete",
                                 !.stale = NumberOf(auth.id) \notin LiveIds])
    /\ UNCHANGED <<users, nextUserId, refreshTokens, nextTokenId, session>>

\* variant: only the access-token cookie is cleared
LogoutRespondKeepsRefresh(r) ==
    [r EXCEPT !.pc = "done", !.res.cleared = {"accessToken"},
              !.res.json = [empty |-> TRUE]]

\* the two clearCookie calls and res.json({})
LogoutRespond(r) ==
    [r EXCEPT !.pc = "done", !.res.cleared = {"accessToken", "refreshToken"},
              !.res.json = [empty |-> TRUE]]

LogoutDeleteOk(p) ==
    LET r == req[p]
        id == LogoutTokenId(r)
    IN
    /\ r.kind = "logout" /\ r.pc = "delete"
    /\ refreshTokens' = DeleteRefreshToken(refreshTokens, id)
    /\ Update(p, LogoutRespond([r EXCEPT !.revoked = {id}]))
    /\ UNCHANGED <<users, nextUserId, nextTokenId, session, calls>>

LogoutDeleteFail(p) ==
    LET r == req[p] IN
    /\ r.kind = "logout" /\ r.pc = "delete"
    /\ Update(p, Catch(r, StoreUnavailable, "delete"))
    /\ UNCHANGED <<users, nextUserId, refreshTokens, nextTokenId, session, calls>>

\* --------------------------------------------------------------- environment
\* the process stops while a request waits at an await
Crash(p) ==
    /\ ~Over(p)
    /\ Update(p, [req[p] EXCEPT !.pc = "crashed"])
    /\ UNCHANGED <<users, nextUserId, refreshTokens, nextTokenId, session, calls>>

\* the Identity Provider removes an identity
DeleteUser(u) ==
    /\ u \in users
    /\ calls < MaxCalls
    /\ calls' = calls + 1
    /\ users' = users \ {u}
    /\ UNCHANGED <<nextUserId, refreshTokens, nextTokenId, session, delivered, req>>

\* the Identity Provider changes an identity's role
PromoteUser(u) ==
    /\ u \in users /\ u.role = RoleCustomer
    /\ calls < MaxCalls
    /\ calls' = calls + 1
    /\ users' = (users \ {u}) \cup {[u EXCEPT !.role = RoleManager]}
    /\ UNCHANGED <<nextUserId, refreshTokens, nextTokenId, session, delivered, req>>

\* ------------------------------------------------------------ specification
Init ==
    /\ users = {}
    /\ nextUserId = 1
    /\ refreshTokens = {}
    /\ nextTokenId = 1
    /\ session = [i \in {} |-> 0]
    /\ delivered = {}
    /\ calls = 0
    /\ req = [p \in Procs |-> IdleReq]

Next ==
    \/ \E p \in Procs, body \in RegisterBodies : RegisterStart(p, body)
    \/ \E p \in Procs : RegisterCreate(p)
    \/ \E p \in Procs : RegisterPersistOk(p)
    \/ \E p \in Procs : RegisterPersistFail(p)
    \/ \E p \in Procs, body \in LoginBodies : LoginStart(p, body)
    \/ \E p \in Procs : LoginFind(p)
    \/ \E p \in Procs : LoginCompare(p)
    \/ \E p \in Procs : LoginPersistOk(p)
    \/ \E p \in Procs : LoginPersistFail(p)
    \/ \E p \in Procs, auth \in delivered : RefreshStart(p, auth)
    \/ \E p \in Procs : RefreshFind(p)
    \/ \E p \in Procs : RefreshPersistOk(p)
    \/ \E p \in Procs : RefreshPersistFail(p)
    \/ \E p \in Procs : RefreshDeleteOk(p)
    \/ \E p \in Procs : RefreshDeleteFail(p)
    \/ \E p \in Procs, auth \in delivered : LogoutStart(p, auth)
    \/ \E p \in Procs : LogoutDeleteOk(p)
    \/ \E p \in Procs : LogoutDeleteFail(p)
    \/ \E p \in Procs : Crash(p)
    \/ \E u \in users : DeleteUser(u)
    \/ \E u \in users : PromoteUser(u)

Spec == Init /\ [][Next]_vars

\* -------------------------------------------------- sequential specification
\* One request at a time, every call succeeds, and refresh and logout present
\* the record id most recently issued to their session.
SessionOf(auth) == session[NumberOf(auth.id)]

LatestAuth ==
    {a \in delivered :
        \A b \in delivered :
            SessionOf(b) = SessionOf(a) => NumberOf(b.id) <= NumberOf(a.id)}

CanIssue == nextTokenId <= MaxTokens

SeqRegisterStart(body) ==
    /\ IsValid(body)
    /\ FindByEmailWithPassword(body.email) = Null
    /\ nextUserId <= MaxUsers
    /\ CanIssue
    /\ RegisterStart(1, body)

SeqLoginStart(body) ==
    /\ IsValid(body)
    /\ FindByEmailWithPassword(body.email) # Null
    /\ ComparePassword(body.password, FindByEmailWithPassword(body.email).password)
    /\ CanIssue
    /\ LoginStart(1, body)

SeqRefreshStart(auth) ==
    /\ FindById(NumberOf(auth.sub)) # Null
    /\ CanIssue
    /\ RefreshStart(1, auth)

SeqLogoutStart(auth) == LogoutStart(1, auth)

NextSeq ==
    \/ \E body \in RegisterBodies : SeqRegisterStart(body)
    \/ RegisterCreate(1)
    \/ RegisterPersistOk(1)
    \/ \E body \in LoginBodies : SeqLoginStart(body)
    \/ LoginFind(1)
    \/ LoginCompare(1)
    \/ LoginPersistOk(1)
    \/ \E auth \in LatestAuth : SeqRefreshStart(auth)
    \/ RefreshFind(1)
    \/ RefreshPersistOk(1)
    \/ RefreshDeleteOk(1)
    \/ \E auth \in LatestAuth : SeqLogoutStart(auth)
    \/ LogoutDeleteOk(1)

SpecSeq == Init /\ [][NextSeq]_vars

\* --------------------------------------------------------------- properties
Succeeded(r) == r.pc = "done" /\ r.res.json # Null /\ r.res.err = Null /\ r.fault = "none"

NoCookies(r) == r.res.accessToken = Null /\ r.res.refreshToken = Null

IdsOf(records) == {t.id : t \in records}

\* C1: in refresh the old record is deleted only after the new record has been
\* created: whenever a refresh request has run its delete (at any step, also
\* when it has crashed), the record it created exists, and it is still live
\* as long as the request has not handed it to a client.
C1_CreateThenDelete ==
    \A p \in Procs :
        LET r == req[p] IN
        (r.kind = "refresh" /\ r.revoked # {}) =>
            /\ r.created # {}
            /\ (r.pc # "done" => r.created \subseteq refreshTokens)

C1_Witness ==
    \E p \in Procs :
        /\ req[p].kind = "refresh"
        /\ req[p].revoked # {}
        /\ req[p].created # {}
        /\ req[p].revoked \cap LiveIds = {}

\* the step by which slot p's refresh request completes successfully
RefreshCompletes(p) ==
    /\ req[p].pc # "done"
    /\ req'[p].kind = "refresh"
    /\ Succeeded(req'[p])

RotatedAfter(p) ==
    LET r == req'[p]
        old == NumberOf(r.auth.id)
        u == NumberOf(r.auth.sub)
    IN  /\ old \notin LiveIds'
        /\ DeleteRefreshToken(refreshTokens', old) = refreshTokens'
        /\ Cardinality(r.created) = 1
        /\ \A t \in r.created : t.user = u /\ t.id # old /\ t \in refreshTokens'
        /\ r.revoked = {old}

\* C2: when a refresh call for identity u presenting record id r completes
\* successfully, r is not live, deleting r again leaves the store unchanged,
\* and the call has created exactly one record, live, owned by u, with an id
\* different from r.
C2_Rotation == [][\A p \in Procs : RefreshCompletes(p) => RotatedAfter(p)]_vars

C2_Witness ==
    \E p \in Procs :
        /\ req[p].kind = "refresh" /\ Succeeded(req[p])
        /\ NumberOf(req[p].auth.id) \notin LiveIds
        /\ req[p].created # {}
        /\ req[p].created \subseteq refreshTokens

SameOldRecord(p, q) ==
    /\ p # q
    /\ req[p].kind = "refresh" /\ Succeeded(req[p])
    /\ req[q].kind = "refresh" /\ Succeeded(req[q])
    /\ req[p].auth.id = req[q].auth.id

\* C3: when two refresh requests presenting the same old record id have both
\* completed successfully, each has created its own record, the two records
\* are distinct, and neither request has revoked a new record (each revoked
\* the old id only).
C3_DoubleRefresh ==
    \A p, q \in Procs :
        SameOldRecord(p, q) =>
            /\ Cardinality(req[p].created) = 1
            /\ Cardinality(req[q].created) = 1
            /\ req[p].created # req[q].created
            /\ (req[p].revoked \cup req[q].revoked)
                   \cap IdsOf(req[p].created \cup req[q].created) = {}

\* both requests are over and both new records are live
C3_Witness ==
    \E p, q \in Procs :
        /\ SameOldRecord(p, q)
        /\ req[p].created \cup req[q].created \subseteq refreshTokens
        /\ Cardinality(req[p].created \cup req[q].created) = 2

\* C4: a refresh call that presents a record id already deleted when the call
\* begins creates no record and sets no cookie.
C4_RevokedStaysRevoked ==
    \A p \in Procs :
        (req[p].kind = "refresh" /\ req[p].stale) =>
            /\ req[p].created = {}
            /\ NoCookies(req[p])

LiveOfSession(s) == {t \in refreshTokens : session[t.id] = s}

\* C5: in the sequential specification, between calls every session has at
\* most one live record; after refresh the old record is gone and the new one,
\* with another id and owned by the same identity, is live; after logout the
\* session has no live record and both cookies are cleared.
C5_OneLivePerSession ==
    LET r == req[1] IN
    Over(1) =>
        /\ \A s \in DOMAIN session : Cardinality(LiveOfSession(s)) <= 1
        /\ (r.kind = "refresh" /\ r.pc = "done") =>
               /\ Succeeded(r)
               /\ NumberOf(r.auth.id) \notin LiveIds
               /\ \E t \in refreshTokens :
                      /\ r.created = {t}
                      /\ t.id # NumberOf(r.auth.id)
                      /\ t.user = NumberOf(r.auth.sub)
                      /\ LiveOfSession(SessionOf(r.auth)) = {t}
        /\ (r.kind = "logout" /\ r.pc = "done") =>
               /\ Succeeded(r)
               /\ LiveOfSession(SessionOf(r.auth)) = {}
               /\ r.res.cleared = {"accessToken", "refreshToken"}

C5_Witness ==
    /\ req[1].kind = "logout" /\ req[1].pc = "done"
    /\ NumberOf(req[1].auth.id) > 1
    /\ refreshTokens = {}

\* the step by which slot p's register request completes successfully
RegisterCompletes(p) ==
    /\ req[p].pc # "done"
    /\ req'[p].kind = "register"
    /\ Succeeded(req'[p])

RegisteredAfter(p) ==
    LET r == req'[p] IN
    /\ r.user # Null
    /\ r.user.email = r.body.email
    /\ r.res.accessToken # Null
    /\ r.res.accessToken.class = "access"
    /\ r.res.accessToken.claims.sub = StringOf(r.user.id)
    /\ \E t \in refreshTokens' : t.user = r.user.id /\ t \in r.created
    /\ r.res.status = 201
    /\ r.res.json = [id |-> r.user.id]

\* C6: when a registration completes successfully, the access token it
\* delivers has sub equal to the id of the identity the call created, and a
\* live refresh-token record owned by that identity exists.
C6_RegisterBinding == [][\A p \in Procs : RegisterCompletes(p) => RegisteredAfter(p)]_vars

C6_Witness ==
    \E p \in Procs :
        /\ req[p].kind = "register" /\ Succeeded(req[p])
        /\ req[p].res.accessToken # Null
        /\ req[p].res.accessToken.claims.sub = StringOf(req[p].user.id)
        /\ req[p].created \subseteq refreshTokens
        /\ req[p].created # {}

\* C7: in register, when identity creation fails the error is forwarded as it
\* was raised, no record is created, no token is generated and no cookie is set.
C7_NoPartialIssuance ==
    \A p \in Procs :
        LET r == req[p] IN
        (r.kind = "register" /\ r.fault = "create") =>
            /\ r.pc = "done"
            /\ r.res.err = DuplicateEmail
            /\ r.res.json = Null
            /\ r.created = {}
            /\ r.user = Null
            /\ r.accessToken = Null
            /\ r.newRefreshToken = Null
            /\ NoCookies(r)

C7_Witness ==
    \E p \in Procs :
        /\ req[p].kind = "register" /\ req[p].fault = "create"
        /\ req[p].res.err = DuplicateEmail

\* what a caller of a failed login can observe
LoginOutcome(r) == <<r.res, r.created, r.newRefreshToken, r.accessToken>>

\* C8: a login that finds no identity for the email and a login with a wrong
\* password end in the same outcome: the same error forwarded, no record
\* created, no token generated, no cookie set.
C8_SameLoginFailure ==
    \A p, q \in Procs :
        (/\ req[p].kind = "login" /\ req[p].fault = "nouser"
         /\ req[q].kind = "login" /\ req[q].fault = "badpassword") =>
            /\ LoginOutcome(req[p]) = LoginOutcome(req[q])
            /\ req[p].res.err # Null
            /\ req[p].res.json = Null
            /\ req[p].created = {}
            /\ NoCookies(req[p])

C8_Witness ==
    \E p, q \in Procs :
        /\ req[p].kind = "login" /\ req[p].fault = "nouser"
        /\ req[q].kind = "login" /\ req[q].fault = "badpassword"
        /\ req[p].body.email # req[q].body.email

\* C9: in register, login and refresh, when persisting the new record fails
\* the access token already generated is not delivered, no refresh token is
\* delivered, and the store's error is forwarded.
C9_PersistFailureAborts ==
    \A p \in Procs :
        LET r == req[p] IN
        r.fault = "persist" =>
            /\ r.kind \in {"register", "login", "refresh"}
            /\ r.accessToken # Null
            /\ NoCookies(r)
            /\ r.res.json = Null
            /\ r.res.err = StoreUnavailable
            /\ r.created = {}

C9_Witness ==
    \E p \in Procs :
        /\ req[p].kind = "refresh" /\ req[p].fault = "persist"
        /\ req[p].accessToken # Null
        /\ req[p].res.err = StoreUnavailable

\* C10: whenever a store call (create or delete) fails inside a request, the
\* error is forwarded, no cookie is set, and the store holds no record created
\* by that request.
C10_StoreFailureLeavesNothing ==
    \A p \in Procs :
        LET r == req[p] IN
        r.fault \in {"persist", "delete"} =>
            /\ r.res.err = StoreUnavailable
            /\ NoCookies(r)
            /\ r.created \cap refreshTokens = {}

\* C11: in refresh the access token is issued from the re-resolved identity:
\* the access token a successful refresh delivers carries the current values
\* of the identity the request re-resolved, and a refresh that finds no
\* identity has generated no access token.
C11_FreshClaims ==
    \A p \in Procs :
        LET r == req[p] IN
        r.kind = "refresh" =>
            /\ Succeeded(r) => r.res.accessToken.claims = UserPayload(r.user)
            /\ r.fault = "nouser" => r.accessToken = Null

\* the step by which slot p's logout request ends
LogoutCompletes(p) ==
    /\ req[p].kind = "logout" /\ req[p].pc = "delete"
    /\ req'[p].kind = "logout" /\ req'[p].pc = "done"

LoggedOutAfter(p) ==
    LET r == req'[p]
        id == NumberOf(r.auth.id)
    IN  /\ Succeeded(r)
        /\ r.revoked = {id}
        /\ id \notin LiveIds'
        /\ refreshTokens' = {t \in refreshTokens : t.id # id}
        /\ r.res.cleared = {"accessToken", "refreshToken"}
        /\ NoCookies(r)
        /\ (id \notin LiveIds => refreshTokens' = refreshTokens)

C13_TokenBinding ==
    \A a \in delivered :
        \A t \in refreshTokens :
            t.id = NumberOf(a.id) => (a.sub = StringOf(t.user) /\ NumberOf(a.sub) = t.user)

\* a token delivered by a refresh is live
C13_Witness ==
    \E p \in Procs :
        /\ req[p].kind = "refresh" /\ Succeeded(req[p])
        /\ req[p].res.refreshToken.claims \in delivered
        /\ NumberOf(req[p].res.refreshToken.claims.id) \in LiveIds

Removed == refreshTokens \ refreshTokens'

\* C14: a step removes records only as the delete of one refresh or logout
\* request, and then at most one record, the one whose id the request's token
\* carries; every other record stays as it was.
C14_DeletesOnlyPresented ==
    [][Removed # {} =>
          /\ Cardinality(Removed) = 1
          /\ \E p \in Procs :
                /\ req[p].kind \in {"refresh", "logout"}
                /\ req[p].pc = "delete"
                /\ req'[p].revoked = {NumberOf(req[p].auth.id)}
                /\ \A t \in Removed : t.id = NumberOf(req[p].auth.id)
                /\ refreshTokens' = refreshTokens \ Removed]_vars

\* a logout has removed its record and another record of the same identity
\* is still live
C14_Witness ==
    \E p \in Procs :
        /\ req[p].kind = "logout" /\ Succeeded(req[p]) /\ ~req[p].stale
        /\ NumberOf(req[p].auth.id) \notin LiveIds
        /\ \E t \in refreshTokens : t.user = NumberOf(req[p].auth.sub)

\* C15: a signed refresh token exists in a request only once the request has
\* persisted its record, and the id it embeds is that record's id: not the
\* presented token's id and not the id of a record another request created.
C15_IssuanceOrder ==
    \A p \in Procs :
        LET r == req[p] IN
        r.res.refreshToken # Null =>
            /\ r.kind \in {"register", "login", "refresh"}
            /\ r.newRefreshToken # Null
            /\ r.created = {r.newRefreshToken}
            /\ r.res.refreshToken.claims.id = StringOf(r.newRefreshToken.id)
            /\ r.kind = "refresh" => r.res.refreshToken.claims.id # r.auth.id
            /\ \A q \in Procs \ {p} : r.newRefreshToken \notin req[q].created

C15_Witness ==
    \E p \in Procs :
        /\ req[p].kind = "refresh"
        /\ req[p].res.refreshToken # Null
        /\ req[p].res.refreshToken.claims.id = StringOf(req[p].newRefreshToken.id)
        /\ req[p].newRefreshToken \in refreshTokens

\* C16: a refresh that finds no identity for the token's sub ends with the
\* identity-not-found error and has changed nothing: it created no record,
\* ran no delete, set no cookie and sent no response.
C16_MissingIdentity ==
    \A p \in Procs :
        LET r == req[p] IN
        (r.kind = "refresh" /\ r.fault = "nouser") =>
            /\ r.pc = "done"
            /\ r.res.err = RefreshNoUserError
            /\ r.res.json = Null
            /\ r.user = Null
            /\ r.created = {}
            /\ r.newRefreshToken = Null
            /\ r.revoked = {}
            /\ NoCookies(r)

\* the old record is still live after the failed refresh
C16_Witness ==
    \E p \in Procs :
        /\ req[p].kind = "refresh" /\ req[p].fault = "nouser"
        /\ FindById(NumberOf(req[p].auth.sub)) = Null
        /\ NumberOf(req[p].auth.id) \in LiveIds

\* C17: a register or login request with a malformed body ends at once with
\* the 400 validation response: no identity was created or looked up, no
\* record was created, no token was generated and no cookie was set.
C17_ValidationStops ==
    \A p \in Procs :
        LET r == req[p] IN
        (r.kind \in {"register", "login"} /\ r.body = Malformed) =>
            /\ r.pc = "done"
            /\ r.fault = "validation"
            /\ r.res.status = 400
            /\ r.res.json = [errors |-> TRUE]
            /\ r.res.err = Null
            /\ r.user = Null
            /\ r.created = {}
            /\ r.accessToken = Null
            /\ r.newRefreshToken = Null
            /\ NoCookies(r)

C17_Witness ==
    \E p, q \in Procs :
        /\ req[p].kind = "register" /\ req[p].fault = "validation"
        /\ req[q].kind = "login" /\ req[q].fault = "validation"
        /\ users = {} /\ refreshTokens = {}

Responded(r) == r.res.json # Null

Forwarded(r) == r.res.err # Null

\* C18: a request that has ended has exactly one outcome, a response sent or
\* an error forwarded (the 400 validation response is a response sent); a
\* request that has not ended has none; an error raised by the Identity
\* Provider or the Token Issuer is the error forwarded; the two cookies are
\* set both or neither, and only in a request that succeeds.
C18_OneOutcome ==
    \A p \in Procs :
        LET r == req[p] IN
        /\ r.pc = "done" => (Responded(r) # Forwarded(r))
        /\ r.pc # "done" => (~Responded(r) /\ ~Forwarded(r))
        /\ (r.res.accessToken = Null) = (r.res.refreshToken = Null)
        /\ r.res.accessToken # Null =>
               (Succeeded(r) /\ r.kind \in {"register", "login", "refresh"})
        /\ (Succeeded(r) /\ r.kind \in {"register", "login", "refresh"}) =>
               r.res.accessToken # Null
        /\ r.fault = "create" => r.res.err = DuplicateEmail
        /\ r.fault \in {"persist", "delete"} => r.res.err = StoreUnavailable
        /\ r.fault \in {"create", "persist", "delete", "nouser", "badpassword"} =>
               (Forwarded(r) /\ ~Responded(r))

\* one request has succeeded with both cookies, another has had its error
\* forwarded
C18_Witness ==
    \E p, q \in Procs :
        /\ Succeeded(req[p]) /\ req[p].res.accessToken # Null
        /\ req[p].res.refreshToken # Null
        /\ req[q].pc = "done" /\ Forwarded(req[q]) /\ req[q].fault = "delete"

====
